---- MODULE Spec2Model ----
(***************************************************************************)
(* Multi-step integrate-and-fire neuron: the Triton forward and backward   *)
(* kernels of integrate_and_fire.py, their host launchers and the          *)
(* autograd function MultiStepIFNodePTT.                                   *)
(*                                                                         *)
(* Tensors are flat, contiguous, row-major buffers: cell (t, n) of a       *)
(* [T, NCL] tensor lives at address t*NCL + n (strides = (NCL, 1)).        *)
(* Values are integers and arithmetic is exact: the model checks the       *)
(* recurrences, not floating-point rounding.                               *)
(* Each program instance (channel block) of a launched kernel is a little  *)
(* process with registers; its loads and stores are separate steps, and    *)
(* the steps of different blocks interleave freely.                        *)
(***************************************************************************)
EXTENDS Integers, Sequences, FiniteSets, TLC

VARIABLES
    phase,              \* where the caller is: "start", "fwd_kernel", "fwd_done",
                        \* "bwd_kernel", "done" or "raised"
    exc,                \* source line of the exception raised, 0 when none
    x_seq,              \* forward input [T, NCL]: [shape, data]
    v_init,             \* forward input [NCL]:    [shape, data]
    v_threshold,
    v_reset,            \* None or <<value>> as passed to MultiStepIFNodePTT
    detach_reset,
    sg_fn,
    needs_input_grad,   \* ctx.needs_input_grad of (x_seq, v_init)
    s_seq, v_seq, h_seq,         \* forward output buffers (None: not allocated)
    ctx,                \* the autograd context: saved_tensors and attributes
    grad_s_seq, grad_v_seq,      \* backward inputs (None before backward)
    grad_x_seq, grad_v_init,     \* backward output buffers
    kargs,              \* arguments of the kernel launch under way
    blk,                \* pid -> registers and position of each program
    oob,                \* ghost: <<buffer, column>> accessed with column >= NCL
    rewritten           \* ghost: <<buffer, address>> stored to more than once

vars == <<phase, exc, x_seq, v_init, v_threshold, v_reset, detach_reset,
          sg_fn, needs_input_grad, s_seq, v_seq, h_seq, ctx, grad_s_seq,
          grad_v_seq, grad_x_seq, grad_v_init, kargs, blk, oob, rewritten>>

inputs == <<x_seq, v_init, v_threshold, v_reset, detach_reset, sg_fn,
            needs_input_grad>>
fwd_out == <<s_seq, v_seq, h_seq>>
bwd_in == <<grad_s_seq, grad_v_seq>>
bwd_out == <<grad_x_seq, grad_v_init>>

(***************************************************************************)
(* Bounds of the model.                                                    *)
(***************************************************************************)
MaxT == 2
MaxN == 3

\* Python's None, and a present optional value.
None == <<>>

\* Content of a cell of a torch.empty_like buffer that no store has reached.
Uninit == -99

\* Scalars the inputs are built from.
XVals == {-1, 2}
V0Vals == {1}
HVals == {-1, 2, 3}
VthVals == {0, 2}
VResetVals == {None, <<-1>>}
\* (detach_reset, sg_fn) pairs: of a whole call, and of a kernel launch.
DetachSgCases == {<<TRUE, "triangle">>, <<FALSE, "one">>}
KernelDetachSgCases == BOOLEAN \X {"triangle", "one"}
NeedsGradCases == {<<FALSE, FALSE>>, <<FALSE, TRUE>>}
\* A read outside an allocation returns any of these.
GarbageVals == {0, 1}
\* What a read past the end of a buffer of which numel cells are addressed
\* may return (0 stands for "no such read").
Garbage(data, numel) ==
    IF \A a \in 0..(numel - 1) : a \in DOMAIN data THEN {0} ELSE GarbageVals

\* BLOCK_NCL candidates f*w*32 of the autotuner, scaled down by 64 so that a
\* handful of channels already spans several blocks: 2, 4, 4, 8.
AutotuneConfigs == {(f * w * 32) \div 64 : f \in {1, 2}, w \in {4, 8}}

(***************************************************************************)
(* Tensors.                                                                *)
(***************************************************************************)
Numel(shape) == IF Len(shape) = 1 THEN shape[1] ELSE shape[1] * shape[2]

\* Row and column of address a of a tensor of that shape.
Row(shape, a) == IF Len(shape) = 1 THEN 0 ELSE a \div shape[2]
Col(shape, a) == IF Len(shape) = 1 THEN a ELSE a % shape[2]

\* torch.empty_like(x): same shape, nothing written yet.
empty_like(x) ==
    [shape |-> x.shape, data |-> [a \in 0..(Numel(x.shape) - 1) |-> Uninit]]

cdiv_floor(a, b) == a \div b

\* triton.cdiv
cdiv(a, b) == (a + b - 1) \div b

(***************************************************************************)
(* Block pointers: loads and stores of one (1, BLOCK_NCL) row slice.       *)
(***************************************************************************)
Lanes(B) == 0..(B - 1)

ncl_offset_overlap(pid_ncl, B) == pid_ncl * (B - 1)

\* ncl_offset = pid_ncl * BLOCK_NCL
ncl_offset(pid_ncl, B) == pid_ncl * B

boundary_check_none(col, NCL) == TRUE
boundary_check_le(col, NCL) == col <= NCL

\* boundary_check=(1,): a lane takes part iff its column is inside the shape.
boundary_check(col, NCL) == col < NCL

\* strides=(NCL, 1)
Addr(row, col, NCL) == row * NCL + col

ReadMem(data, a, garbage) == IF a \in DOMAIN data THEN data[a] ELSE garbage

\* tl.load(ptrs, boundary_check=(1,), padding_option="zero")
load(data, row, off, B, NCL, garbage) ==
    [l \in Lanes(B) |->
        IF boundary_check(off + l, NCL)
        THEN ReadMem(data, Addr(row, off + l, NCL), garbage)
        ELSE 0]

ActiveLanes(off, B, NCL) == {l \in Lanes(B) : boundary_check(off + l, NCL)}

\* tl.store(ptrs, val, boundary_check=(1,)); a store outside the allocation
\* is dropped.
store(data, row, off, B, NCL, val) ==
    [a \in DOMAIN data |->
        IF \E l \in ActiveLanes(off, B, NCL) : Addr(row, off + l, NCL) = a
        THEN val[CHOOSE l \in ActiveLanes(off, B, NCL) :
                    Addr(row, off + l, NCL) = a]
        ELSE data[a]]

\* Ghost: the columns >= NCL an access of this block touches.
OobCols(name, off, B, NCL) ==
    {<<name, off + l>> : l \in {k \in ActiveLanes(off, B, NCL) : off + k >= NCL}}

\* Ghost: the cells this store overwrites that were already written.
Rewrites(name, data, row, off, B, NCL) ==
    {<<name, Addr(row, off + l, NCL)>> :
        l \in {k \in ActiveLanes(off, B, NCL) :
                 /\ Addr(row, off + k, NCL) \in DOMAIN data
                 /\ data[Addr(row, off + k, NCL)] # Uninit}}

(***************************************************************************)
(* The forward kernel, per lane.                                           *)
(***************************************************************************)
spike_strict(h, vth) == IF h > vth THEN 1 ELSE 0

\* s = (h >= v_threshold).to(dtype)
spike(h, vth) == IF h >= vth THEN 1 ELSE 0

\* if soft_reset: v = h - s*v_threshold  else: v = s*v_reset + (1.-s)*h
reset(h, s, vth, vreset, soft_reset) ==
    IF soft_reset THEN h - s * vth ELSE s * vreset + (1 - s) * h

(***************************************************************************)
(* One step of program pid of the forward kernel.  k: the launch's         *)
(* arguments, b: the program's registers, m: the output buffers and the    *)
(* ghosts.  Positions: "v_init" (before the load of v_init), "load"        *)
(* (before the load of x at step t), "store" (before the stores of step    *)
(* t), "exit".                                                             *)
(***************************************************************************)
FwdLoadVInit(k, pid, b, m, garbage) ==
    LET off == ncl_offset(pid, k.BLOCK_NCL) IN
    [b |-> [b EXCEPT !.v = load(k.v_init, 0, off, k.BLOCK_NCL, k.NCL, garbage),
                     !.pc = IF k.T > 0 THEN "load" ELSE "exit"],
     m |-> [m EXCEPT !.oob = @ \cup OobCols("v_init", off, k.BLOCK_NCL, k.NCL)]]

FwdLoadX(k, pid, b, m, garbage) ==
    LET off == ncl_offset(pid, k.BLOCK_NCL)
        x == load(k.x_seq, b.t, off, k.BLOCK_NCL, k.NCL, garbage)
        h == [l \in Lanes(k.BLOCK_NCL) |-> b.v[l] + x[l]]
        s == [l \in Lanes(k.BLOCK_NCL) |-> spike(h[l], k.v_threshold)]
        v == [l \in Lanes(k.BLOCK_NCL) |->
                reset(h[l], s[l], k.v_threshold, k.v_reset, k.soft_reset)]
    IN
    [b |-> [b EXCEPT !.h = h, !.s = s, !.v = v, !.pc = "store"],
     m |-> [m EXCEPT !.oob = @ \cup OobCols("x_seq", off, k.BLOCK_NCL, k.NCL)]]

FwdStore(k, pid, b, m) ==
    LET off == ncl_offset(pid, k.BLOCK_NCL)
        B == k.BLOCK_NCL
        N == k.NCL
    IN
    [b |-> [b EXCEPT !.t = b.t + 1,
                     !.pc = IF b.t + 1 < k.T THEN "load" ELSE "exit"],
     m |-> [m EXCEPT
              !.s_seq = store(@, b.t, off, B, N, b.s),
              !.v_seq = store(@, b.t, off, B, N, b.v),
              !.h_seq = IF k.save_intermediates
                        THEN store(@, b.t, off, B, N, b.h) ELSE @,
              !.oob = @ \cup OobCols("s_seq", off, B, N)
                        \cup OobCols("v_seq", off, B, N)
                        \cup (IF k.save_intermediates
                              THEN OobCols("h_seq", off, B, N) ELSE {}),
              !.rewritten = @ \cup Rewrites("s_seq", m.s_seq, b.t, off, B, N)
                              \cup Rewrites("v_seq", m.v_seq, b.t, off, B, N)
                              \cup (IF k.save_intermediates
                                    THEN Rewrites("h_seq", m.h_seq, b.t, off, B, N)
                                    ELSE {})]]

\* As FwdStore with the store of v inside "if save_intermediates".
FwdStore_v_under_save(k, pid, b, m) ==
    LET r == FwdStore(k, pid, b, m) IN
    IF k.save_intermediates THEN r
    ELSE [r EXCEPT !.m.v_seq = m.v_seq]

\* Lines 68-95: the stores of step t, then the next iteration.
FwdStoreStep(k, pid, b, m) == FwdStore(k, pid, b, m)

_multistep_if_forward_kernel(k, pid, b, m, garbage) ==
    CASE b.pc = "v_init" -> FwdLoadVInit(k, pid, b, m, garbage)
      [] b.pc = "load"   -> FwdLoadX(k, pid, b, m, garbage)
      [] b.pc = "store"  -> FwdStoreStep(k, pid, b, m)

\* Registers of a forward program at launch.
FwdRegs(B) ==
    [pc |-> "v_init", t |-> 0,
     v |-> [l \in Lanes(B) |-> 0],
     h |-> [l \in Lanes(B) |-> 0],
     s |-> [l \in Lanes(B) |-> 0]]

\* grid = (triton.cdiv(NCL, BLOCK_NCL),)
Grid(NCL, B) == 0..(cdiv(NCL, B) - 1)

FwdMem == [s_seq |-> s_seq, v_seq |-> v_seq, h_seq |-> h_seq,
           oob |-> oob, rewritten |-> rewritten]

(***************************************************************************)
(* The whole forward grid run one program after the other, in the order    *)
(* given: the kernel as a function of its arguments.                       *)
(***************************************************************************)
RECURSIVE FwdRunProgram(_, _, _, _)
FwdRunProgram(k, pid, b, m) ==
    IF b.pc = "exit" THEN m
    ELSE LET r == _multistep_if_forward_kernel(k, pid, b, m, 0)
         IN FwdRunProgram(k, pid, r.b, r.m)

RECURSIVE FwdRunGrid(_, _, _)
FwdRunGrid(k, order, m) ==
    IF order = <<>> THEN m
    ELSE FwdRunGrid(k, Tail(order),
                    FwdRunProgram(k, Head(order), FwdRegs(k.BLOCK_NCL), m))

(***************************************************************************)
(* Host side: MultiStepIFNodePTT.forward and the launchers.                *)
(***************************************************************************)
TrainingPass_first(needs) == needs[1]

\* any(ctx.needs_input_grad)
TrainingPass(needs) == \E i \in DOMAIN needs : needs[i]

\* soft_reset = v_reset is None
SoftReset(vr) == vr = None

\* v_reset = v_reset if v_reset is not None else 0.
VResetValue(vr) == IF vr = None THEN 0 ELSE vr[1]

\* Arguments of the forward launch built by multistep_if_forward (save: TRUE)
\* and multistep_if_inference (save: FALSE).  T and NCL come from x_seq alone.
FwdKargs(x, v0, vth, vr, save, B) ==
    [kernel |-> "forward",
     x_seq |-> x.data, v_init |-> v0.data,
     v_threshold |-> vth, v_reset |-> VResetValue(vr),
     T |-> x.shape[1], NCL |-> x.shape[2], BLOCK_NCL |-> B,
     soft_reset |-> SoftReset(vr), save_intermediates |-> save]

NoKargs == [kernel |-> "none"]
NoCtx == [saved_tensors |-> <<>>]

\* MultiStepIFNodePTT.forward up to the kernel launch.  x_seq[0] raises
\* IndexError when T = 0; otherwise the buffers are allocated, the autotuner
\* picks BLOCK_NCL and the grid is launched.
ForwardCall ==
    /\ phase = "start"
    /\ IF x_seq.shape[1] = 0
       THEN /\ phase' = "raised"
            /\ exc' = IF TrainingPass(needs_input_grad) THEN 243 ELSE 213
            /\ UNCHANGED <<fwd_out, kargs, blk>>
       ELSE \E B \in AutotuneConfigs :
            /\ phase' = "fwd_kernel"
            /\ s_seq' = empty_like(x_seq).data
            /\ v_seq' = empty_like(x_seq).data
            /\ h_seq' = IF TrainingPass(needs_input_grad)
                        THEN empty_like(x_seq).data ELSE None
            /\ kargs' = FwdKargs(x_seq, v_init, v_threshold, v_reset,
                                 TrainingPass(needs_input_grad), B)
            /\ blk' = [p \in Grid(x_seq.shape[2], B) |-> FwdRegs(B)]
            /\ UNCHANGED exc
    /\ UNCHANGED <<inputs, ctx, bwd_in, bwd_out, oob, rewritten>>

\* One load or store step of one program of the forward kernel.
FwdBlockStep(pid) ==
    /\ phase = "fwd_kernel"
    /\ pid \in DOMAIN blk
    /\ blk[pid].pc # "exit"
    /\ \E garbage \in Garbage(kargs.v_init, kargs.NCL) :
         LET r == _multistep_if_forward_kernel(kargs, pid, blk[pid], FwdMem, garbage)
         IN /\ blk' = [blk EXCEPT ![pid] = r.b]
            /\ s_seq' = r.m.s_seq
            /\ v_seq' = r.m.v_seq
            /\ h_seq' = r.m.h_seq
            /\ oob' = r.m.oob
            /\ rewritten' = r.m.rewritten
    /\ UNCHANGED <<phase, exc, inputs, ctx, bwd_in, bwd_out, kargs>>

\* The kernel has finished; forward saves the context when training and
\* returns s_seq, v_seq.
ForwardReturn ==
    /\ phase = "fwd_kernel"
    /\ \A p \in DOMAIN blk : blk[p].pc = "exit"
    /\ phase' = "fwd_done"
    /\ ctx' = IF TrainingPass(needs_input_grad)
              THEN [saved_tensors |-> <<h_seq>>,
                    v_threshold |-> v_threshold,
                    v_reset |-> VResetValue(v_reset),
                    soft_reset |-> SoftReset(v_reset),
                    detach_reset |-> detach_reset,
                    sg_fn |-> sg_fn]
              ELSE NoCtx
    /\ kargs' = NoKargs
    /\ blk' = <<>>
    /\ UNCHANGED <<exc, inputs, fwd_out, bwd_in, bwd_out, oob, rewritten>>

(***************************************************************************)
(* The backward kernel, per lane.                                          *)
(***************************************************************************)
\* tl.fma(a, b, c)
fma(a, b, c) == a * b + c

Abs(x) == IF x < 0 THEN -x ELSE x

\* sg_fn is supplied by the caller; two representative surrogates: a
\* triangle of half-width 2 around 0 and the constant 1.
surrogate(fn, x) ==
    CASE fn = "triangle" -> IF Abs(x) < 2 THEN 2 - Abs(x) ELSE 0
      [] fn = "one"      -> 1

\* Soft reset without detach, the v_threshold factor forgotten.
grad_h_lane_no_vth(grad_s, grad_v, h, grad_v_acc, vth, vreset, fn, soft_reset, detach) ==
    LET sg == surrogate(fn, h - vth)
        grad_v_combined == grad_v + grad_v_acc
        s == spike(h, vth)
    IN
    IF soft_reset
    THEN IF detach
         THEN fma(grad_s, sg, grad_v_combined)
         ELSE fma(grad_s - grad_v_combined, sg, grad_v_combined)
    ELSE IF detach
         THEN fma(grad_s, sg, grad_v_combined * (1 - s))
         ELSE fma(fma(grad_v_combined, vreset - h, grad_s), sg,
                  grad_v_combined * (1 - s))

\* The carried accumulator left out of grad_v_combined.
grad_h_lane_no_carry(grad_s, grad_v, h, grad_v_acc, vth, vreset, fn, soft_reset, detach) ==
    LET sg == surrogate(fn, h - vth)
        grad_v_combined == grad_v
        s == spike(h, vth)
    IN
    IF soft_reset
    THEN IF detach
         THEN fma(grad_s, sg, grad_v_combined)
         ELSE fma(grad_s - vth * grad_v_combined, sg, grad_v_combined)
    ELSE IF detach
         THEN fma(grad_s, sg, grad_v_combined * (1 - s))
         ELSE fma(fma(grad_v_combined, vreset - h, grad_s), sg,
                  grad_v_combined * (1 - s))

\* grad_h of one lane from the loaded grad_s, grad_v, h and the carried
\* grad_v_acc.
grad_h_lane(grad_s, grad_v, h, grad_v_acc, vth, vreset, fn, soft_reset, detach) ==
    LET sg == surrogate(fn, h - vth)
        grad_v_combined == grad_v + grad_v_acc
        s == spike(h, vth)
    IN
    IF soft_reset
    THEN IF detach
         THEN fma(grad_s, sg, grad_v_combined)
         ELSE fma(grad_s - vth * grad_v_combined, sg, grad_v_combined)
    ELSE IF detach
         THEN fma(grad_s, sg, grad_v_combined * (1 - s))
         ELSE fma(fma(grad_v_combined, vreset - h, grad_s), sg,
                  grad_v_combined * (1 - s))

(***************************************************************************)
(* One step of program pid of the backward kernel.  Positions: "load"      *)
(* (before the three loads of step t), "store" (before the store of        *)
(* grad_x at step t), "store_v_init" (after the loop), "exit".             *)
(***************************************************************************)
BwdLoad(k, pid, b, m, garbage) ==
    LET off == ncl_offset(pid, k.BLOCK_NCL)
        B == k.BLOCK_NCL
        N == k.NCL
        grad_s == load(k.grad_s_seq, b.t, off, B, N, garbage)
        grad_v == load(k.grad_v_seq, b.t, off, B, N, garbage)
        h == load(k.h_seq, b.t, off, B, N, garbage)
        grad_h == [l \in Lanes(B) |->
                     grad_h_lane(grad_s[l], grad_v[l], h[l], b.grad_v_acc[l],
                                 k.v_threshold, k.v_reset, k.sg_fn,
                                 k.soft_reset, k.detach_reset)]
    IN
    [b |-> [b EXCEPT !.grad_v_acc = grad_h, !.grad_x = grad_h, !.pc = "store"],
     m |-> [m EXCEPT !.oob = @ \cup OobCols("grad_s_seq", off, B, N)
                                \cup OobCols("grad_v_seq", off, B, N)
                                \cup OobCols("h_seq", off, B, N)]]

BwdStore(k, pid, b, m) ==
    LET off == ncl_offset(pid, k.BLOCK_NCL)
        B == k.BLOCK_NCL
        N == k.NCL
    IN
    [b |-> [b EXCEPT !.t = b.t - 1,
                     !.pc = IF b.t - 1 > -1 THEN "load" ELSE "store_v_init"],
     m |-> [m EXCEPT
              !.grad_x_seq = store(@, b.t, off, B, N, b.grad_x),
              !.oob = @ \cup OobCols("grad_x_seq", off, B, N),
              !.rewritten = @ \cup Rewrites("grad_x_seq", m.grad_x_seq,
                                            b.t, off, B, N)]]

BwdStoreVInit(k, pid, b, m) ==
    LET off == ncl_offset(pid, k.BLOCK_NCL)
        B == k.BLOCK_NCL
        N == k.NCL
    IN
    [b |-> [b EXCEPT !.pc = "exit"],
     m |-> [m EXCEPT
              !.grad_v_init = store(@, 0, off, B, N, b.grad_v_acc),
              !.oob = @ \cup OobCols("grad_v_init", off, B, N),
              !.rewritten = @ \cup Rewrites("grad_v_init", m.grad_v_init,
                                            0, off, B, N)]]

_multistep_if_backward_kernel(k, pid, b, m, garbage) ==
    CASE b.pc = "load"         -> BwdLoad(k, pid, b, m, garbage)
      [] b.pc = "store"        -> BwdStore(k, pid, b, m)
      [] b.pc = "store_v_init" -> BwdStoreVInit(k, pid, b, m)

\* Registers of a backward program at launch: grad_v_acc = tl.zeros, and the
\* loop for t in static_range(T - 1, -1, -1) about to start.
BwdRegs(T, B) ==
    [pc |-> IF T - 1 > -1 THEN "load" ELSE "store_v_init", t |-> T - 1,
     grad_v_acc |-> [l \in Lanes(B) |-> 0],
     grad_x |-> [l \in Lanes(B) |-> 0]]

BwdMem == [grad_x_seq |-> grad_x_seq, grad_v_init |-> grad_v_init,
           oob |-> oob, rewritten |-> rewritten]

RECURSIVE BwdRunProgram(_, _, _, _)
BwdRunProgram(k, pid, b, m) ==
    IF b.pc = "exit" THEN m
    ELSE LET r == _multistep_if_backward_kernel(k, pid, b, m, 0)
         IN BwdRunProgram(k, pid, r.b, r.m)

RECURSIVE BwdRunGrid(_, _, _)
BwdRunGrid(k, order, m) ==
    IF order = <<>> THEN m
    ELSE BwdRunGrid(k, Tail(order),
                    BwdRunProgram(k, Head(order), BwdRegs(k.T, k.BLOCK_NCL), m))

(***************************************************************************)
(* Host side: MultiStepIFNodePTT.backward and multistep_if_backward.       *)
(***************************************************************************)
\* Arguments of the backward launch.  T and NCL come from grad_s_seq alone.
BwdKargs(gs, gv, h, vth, vr, fn, soft, detach, B) ==
    [kernel |-> "backward",
     grad_s_seq |-> gs.data, grad_v_seq |-> gv.data, h_seq |-> h,
     v_threshold |-> vth, v_reset |-> vr,
     T |-> gs.shape[1], NCL |-> gs.shape[2], BLOCK_NCL |-> B,
     sg_fn |-> fn, soft_reset |-> soft, detach_reset |-> detach]

\* Gradients the consumer of s_seq and v_seq sends back: grad_s is gs on
\* every cell, grad_v is gl (plus the channel index) on the last step and go
\* on the earlier ones.
GradCases == {[gs |-> 0, go |-> 0, gl |-> 1], [gs |-> 1, go |-> 1, gl |-> 2]}

GradS(g, shape) ==
    [shape |-> shape, data |-> [a \in 0..(Numel(shape) - 1) |-> g.gs]]
GradV(g, shape) ==
    [shape |-> shape,
     data |-> [a \in 0..(Numel(shape) - 1) |->
                 IF Row(shape, a) = shape[1] - 1
                 THEN g.gl + Col(shape, a) ELSE g.go]]

\* autograd calls backward only for a forward call it recorded, which it does
\* when some input requires a gradient.  ctx.saved_tensors[0] raises
\* IndexError when forward saved nothing.
BackwardCall ==
    /\ phase = "fwd_done"
    /\ \E i \in DOMAIN needs_input_grad : needs_input_grad[i]
    /\ \E g \in GradCases :
         /\ grad_s_seq' = GradS(g, x_seq.shape)
         /\ grad_v_seq' = GradV(g, x_seq.shape)
    /\ IF ctx.saved_tensors = <<>>
       THEN /\ phase' = "raised"
            /\ exc' = 332
            /\ UNCHANGED <<bwd_out, kargs, blk>>
       ELSE \E B \in AutotuneConfigs :
            /\ phase' = "bwd_kernel"
            /\ grad_x_seq' = empty_like(grad_s_seq').data
            /\ grad_v_init' = [n \in 0..(grad_v_seq'.shape[2] - 1) |-> Uninit]
            /\ kargs' = BwdKargs(grad_s_seq', grad_v_seq', ctx.saved_tensors[1],
                                 ctx.v_threshold, ctx.v_reset, ctx.sg_fn,
                                 ctx.soft_reset, ctx.detach_reset, B)
            /\ blk' = [p \in Grid(grad_s_seq'.shape[2], B) |->
                         BwdRegs(grad_s_seq'.shape[1], B)]
            /\ UNCHANGED exc
    /\ UNCHANGED <<inputs, fwd_out, ctx, oob, rewritten>>

\* One load or store step of one program of the backward kernel.
BwdBlockStep(pid) ==
    /\ phase = "bwd_kernel"
    /\ pid \in DOMAIN blk
    /\ blk[pid].pc # "exit"
    /\ \E garbage \in Garbage(kargs.h_seq, kargs.T * kargs.NCL) :
         LET r == _multistep_if_backward_kernel(kargs, pid, blk[pid], BwdMem, garbage)
         IN /\ blk' = [blk EXCEPT ![pid] = r.b]
            /\ grad_x_seq' = r.m.grad_x_seq
            /\ grad_v_init' = r.m.grad_v_init
            /\ oob' = r.m.oob
            /\ rewritten' = r.m.rewritten
    /\ UNCHANGED <<phase, exc, inputs, fwd_out, ctx, bwd_in, kargs>>

\* The kernel has finished; backward returns grad_x_seq, grad_v_init.
BackwardReturn ==
    /\ phase = "bwd_kernel"
    /\ \A p \in DOMAIN blk : blk[p].pc = "exit"
    /\ phase' = "done"
    /\ kargs' = NoKargs
    /\ blk' = <<>>
    /\ UNCHANGED <<exc, inputs, fwd_out, ctx, bwd_in, bwd_out, oob, rewritten>>

(***************************************************************************)
(* The caller's inputs.  Channel n of x_seq is the series xs shifted by n   *)
(* and v_init[n] is v0*(n+1): every channel has data of its own.           *)
(***************************************************************************)
XSeq(T, N, xs) ==
    [shape |-> <<T, N>>,
     data |-> [a \in 0..(T * N - 1) |-> xs[a \div N] + (a % N)]]
VInit(N, v0) ==
    [shape |-> <<N>>, data |-> [n \in 0..(N - 1) |-> v0 * (n + 1)]]

\* The inputs of one call of MultiStepIFNodePTT.apply; v_init has d channels
\* more than x_seq, for some d in DN.
InitInputs(DN) ==
    /\ \E T \in 0..MaxT, N \in 1..MaxN :
         /\ \E xs \in [0..(T - 1) -> XVals] : x_seq = XSeq(T, N, xs)
         /\ \E v0 \in V0Vals, d \in DN :
              N + d > 0 /\ v_init = VInit(N + d, v0)
    /\ v_threshold \in VthVals
    /\ v_reset \in VResetVals
    /\ \E ds \in DetachSgCases : detach_reset = ds[1] /\ sg_fn = ds[2]
    /\ needs_input_grad \in NeedsGradCases

InitRest ==
    /\ phase = "start"
    /\ exc = 0
    /\ s_seq = None /\ v_seq = None /\ h_seq = None
    /\ ctx = NoCtx
    /\ grad_s_seq = None /\ grad_v_seq = None
    /\ grad_x_seq = None /\ grad_v_init = None
    /\ kargs = NoKargs
    /\ blk = <<>>
    /\ oob = {}
    /\ rewritten = {}

Init == InitInputs({0}) /\ InitRest

Next ==
    \/ ForwardCall
    \/ \E pid \in DOMAIN blk : FwdBlockStep(pid)
    \/ ForwardReturn
    \/ BackwardCall
    \/ \E pid \in DOMAIN blk : BwdBlockStep(pid)
    \/ BackwardReturn

Spec == Init /\ [][Next]_vars

(***************************************************************************)
(* Calls whose v_init has one channel fewer or one more than x_seq.  The   *)
(* launchers take T and NCL from x_seq and check nothing; a program whose  *)
(* v_init load runs past the end of v_init reads garbage or faults.        *)
(***************************************************************************)
InitMismatch == InitInputs({-1, 1}) /\ InitRest

\* The load of v_init (line 48) of program pid faults: an illegal memory
\* access, reported to the caller as an error of the launch.
FwdBlockFault(pid) ==
    /\ phase = "fwd_kernel"
    /\ pid \in DOMAIN blk
    /\ blk[pid].pc = "v_init"
    /\ \E l \in ActiveLanes(ncl_offset(pid, kargs.BLOCK_NCL),
                             kargs.BLOCK_NCL, kargs.NCL) :
          ncl_offset(pid, kargs.BLOCK_NCL) + l \notin DOMAIN kargs.v_init
    /\ phase' = "raised"
    /\ exc' = IF kargs.save_intermediates THEN 249 ELSE 218
    /\ kargs' = NoKargs
    /\ blk' = <<>>
    /\ UNCHANGED <<inputs, fwd_out, ctx, bwd_in, bwd_out, oob, rewritten>>

NextMismatch ==
    \/ Next
    \/ \E pid \in DOMAIN blk : FwdBlockFault(pid)

SpecMismatch == InitMismatch /\ [][NextMismatch]_vars

(***************************************************************************)
(* The backward kernel on its own: launched over grid = cdiv(NCL,          *)
(* BLOCK_NCL) with any arguments, T = 0 included (multistep_if_backward     *)
(* itself raises IndexError on grad_s_seq[0] when T = 0).                  *)
(***************************************************************************)
HSeq(T, N, hs) ==
    [shape |-> <<T, N>>,
     data |-> [a \in 0..(T * N - 1) |-> hs[a \div N] + (a % N)]]

InitBwd ==
    /\ \E T \in 0..MaxT, N \in 1..MaxN, B \in AutotuneConfigs, g \in GradCases,
          vth \in VthVals, vr \in VResetVals, ds \in KernelDetachSgCases :
         /\ \E hs \in [0..(T - 1) -> HVals] : h_seq = HSeq(T, N, hs).data
         /\ grad_s_seq = GradS(g, <<T, N>>)
         /\ grad_v_seq = GradV(g, <<T, N>>)
         /\ grad_x_seq = empty_like(grad_s_seq).data
         /\ grad_v_init = [n \in 0..(N - 1) |-> Uninit]
         /\ kargs = BwdKargs(grad_s_seq, grad_v_seq, h_seq, vth,
                             VResetValue(vr), ds[2], SoftReset(vr), ds[1], B)
         /\ blk = [p \in Grid(N, B) |-> BwdRegs(T, B)]
         /\ v_threshold = vth /\ v_reset = vr
         /\ detach_reset = ds[1] /\ sg_fn = ds[2]
    /\ phase = "bwd_kernel"
    /\ exc = 0
    /\ x_seq = None /\ v_init = None /\ needs_input_grad = <<TRUE, TRUE>>
    /\ s_seq = None /\ v_seq = None
    /\ ctx = NoCtx
    /\ oob = {}
    /\ rewritten = {}

NextBwd ==
    \/ \E pid \in DOMAIN blk : BwdBlockStep(pid)
    \/ BackwardReturn

SpecBwd == InitBwd /\ [][NextBwd]_vars

(***************************************************************************)
(* Vocabulary of the properties.                                           *)
(***************************************************************************)
Launched == phase \in {"fwd_kernel", "fwd_done", "bwd_kernel", "done"}
FwdComplete == phase = "fwd_kernel" /\ \A p \in DOMAIN blk : blk[p].pc = "exit"
BwdComplete == phase = "bwd_kernel" /\ \A p \in DOMAIN blk : blk[p].pc = "exit"
NeedsGrad == \E i \in DOMAIN needs_input_grad : needs_input_grad[i]

\* Orders in which the programs 0..n-1 can be run one after the other.
Orders(n) ==
    {o \in [1..n -> 0..(n - 1)] : \A i, j \in 1..n : o[i] = o[j] => i = j}
NaturalOrder(n) == [i \in 1..n |-> i - 1]

\* ceil(a / b), and the potential of a lane fed zeros after j steps from 0.
Ceil(a, b) == IF a % b = 0 THEN a \div b ELSE a \div b + 1
RECURSIVE PadV(_, _)
PadV(k, j) ==
    IF j = 0 THEN 0
    ELSE LET h == PadV(k, j - 1)
             sp == IF h >= k.v_threshold THEN 1 ELSE 0
         IN IF k.soft_reset THEN h - sp * k.v_threshold
            ELSE sp * k.v_reset + (1 - sp) * h

\* The per-step factor dv_t/dh_t of cell (t, n), and the product of the
\* factors of steps 0..t of channel n.
StepFactor(t, n) ==
    LET H == h_seq[t * grad_s_seq.shape[2] + n]
        sg == surrogate(sg_fn, H - v_threshold)
        s == IF H >= v_threshold THEN 1 ELSE 0
    IN CASE v_reset = None /\ detach_reset  -> 1
         [] v_reset = None /\ ~detach_reset -> 1 - v_threshold * sg
         [] v_reset # None /\ detach_reset  -> 1 - s
         [] v_reset # None /\ ~detach_reset -> (1 - s) + (v_reset[1] - H) * sg
RECURSIVE ChainProduct(_, _)
ChainProduct(t, n) ==
    IF t < 0 THEN 1 ELSE StepFactor(t, n) * ChainProduct(t - 1, n)

\* Freshly allocated output buffers of a forward or backward launch k.
FreshFwd(k) ==
    [s_seq |-> [a \in 0..(k.T * k.NCL - 1) |-> Uninit],
     v_seq |-> [a \in 0..(k.T * k.NCL - 1) |-> Uninit],
     h_seq |-> IF k.save_intermediates
               THEN [a \in 0..(k.T * k.NCL - 1) |-> Uninit] ELSE None,
     oob |-> {}, rewritten |-> {}]
FreshBwd(k) ==
    [grad_x_seq |-> [a \in 0..(k.T * k.NCL - 1) |-> Uninit],
     grad_v_init |-> [a \in 0..(k.NCL - 1) |-> Uninit],
     oob |-> {}, rewritten |-> {}]

\* The launch k run to completion, program after program in the given order.
FwdSequential(k, order) == FwdRunGrid(k, order, FreshFwd(k))
BwdSequential(k, order) == BwdRunGrid(k, order, FreshBwd(k))

(***************************************************************************)
(* C1.  Forward recurrence.  Every cell (t, n) the forward pass (training  *)
(* or inference) has stored obeys: h = v_{t-1} + X[t,n] with v_{-1} =      *)
(* V0[n]; S[t,n] is 1 if h >= v_threshold (equality spikes) and 0          *)
(* otherwise; V[t,n] = h - S*v_threshold under soft reset and              *)
(* S*v_reset + (1-S)*h under hard reset; H[t,n] = h when H is kept; and    *)
(* V[t,n] = h whenever S[t,n] = 0.                                         *)
(***************************************************************************)
C1_ForwardRecurrence ==
    Launched =>
      LET T == x_seq.shape[1]
          N == x_seq.shape[2]
      IN \A t \in 0..(T - 1), n \in 0..(N - 1) :
           LET a == t * N + n
               vprev == IF t = 0 THEN v_init.data[n] ELSE v_seq[a - N]
               h == vprev + x_seq.data[a]
               S == s_seq[a]
               V == v_seq[a]
           IN (S # Uninit \/ V # Uninit) =>
                /\ vprev # Uninit
                /\ S \in {0, 1}
                /\ (S = 1) <=> (h >= v_threshold)
                /\ V = IF v_reset = None THEN h - S * v_threshold
                       ELSE S * v_reset[1] + (1 - S) * h
                /\ (S = 0 => V = h)
                /\ (h_seq # None => h_seq[a] = h)

\* A finished two-step hard-reset pass in which one cell spikes at exact
\* equality and another stays below the threshold.
C1_Witness ==
    /\ phase = "fwd_done"
    /\ x_seq.shape[1] = 2
    /\ v_reset # None
    /\ h_seq # None
    /\ \E a \in DOMAIN h_seq : h_seq[a] = v_threshold /\ s_seq[a] = 1
    /\ \E a \in DOMAIN h_seq : s_seq[a] = 0 /\ v_seq[a] = h_seq[a]

(***************************************************************************)
(* C3.  When a forward launch has finished, S and V are in every cell the  *)
(* S and V of the other variant (training for an inference launch,         *)
(* inference for a training launch) on the same inputs; the training run   *)
(* has H written in every cell and the inference run has no H.             *)
(***************************************************************************)
C3_InferenceEqualsTraining ==
    FwdComplete =>
      LET other == FwdSequential(
                     [kargs EXCEPT !.save_intermediates = ~kargs.save_intermediates],
                     NaturalOrder(cdiv(kargs.NCL, kargs.BLOCK_NCL)))
          train == IF kargs.save_intermediates THEN h_seq ELSE other.h_seq
          infer == IF kargs.save_intermediates THEN other.h_seq ELSE h_seq
      IN /\ s_seq = other.s_seq
         /\ v_seq = other.v_seq
         /\ \A a \in DOMAIN s_seq : s_seq[a] # Uninit /\ v_seq[a] # Uninit
         /\ infer = None
         /\ DOMAIN train = DOMAIN s_seq
         /\ \A a \in DOMAIN train : train[a] # Uninit

\* A finished inference launch over two steps and a partial last block.
C3_Witness ==
    /\ FwdComplete
    /\ ~kargs.save_intermediates
    /\ kargs.T = 2 /\ kargs.NCL = 3 /\ kargs.BLOCK_NCL = 2
    /\ \E a \in DOMAIN s_seq : s_seq[a] = 1

(***************************************************************************)
(* C5.  H exists and is saved in the context, with v_threshold, v_reset,   *)
(* soft_reset, detach_reset and sg_fn, exactly when the forward call was a *)
(* training pass (some input requires a gradient); a call that needs no    *)
(* gradient has no H and saves nothing; backward never finds the context   *)
(* empty, and the kernel it launches reads the H of its forward call.      *)
(***************************************************************************)
C5_ModeSelection ==
    /\ Launched => ((h_seq # None) <=> NeedsGrad)
    /\ phase \in {"fwd_done", "bwd_kernel", "done"} =>
         IF NeedsGrad
         THEN /\ ctx.saved_tensors = <<h_seq>>
              /\ ctx.v_threshold = v_threshold
              /\ ctx.v_reset = (IF v_reset = None THEN 0 ELSE v_reset[1])
              /\ ctx.soft_reset = (v_reset = None)
              /\ ctx.detach_reset = detach_reset
              /\ ctx.sg_fn = sg_fn
         ELSE ctx = NoCtx
    /\ exc # 332
    /\ phase \in {"bwd_kernel", "done"} => NeedsGrad
    /\ phase = "bwd_kernel" =>
         /\ kargs.h_seq = h_seq
         /\ kargs.v_threshold = v_threshold
         /\ kargs.soft_reset = (v_reset = None)
         /\ kargs.detach_reset = detach_reset
         /\ kargs.sg_fn = sg_fn

\* A backward launch under way on the H its training-mode forward saved,
\* where only v_init requires a gradient.
C5_Witness ==
    /\ phase = "bwd_kernel"
    /\ needs_input_grad = <<FALSE, TRUE>>
    /\ ctx.saved_tensors = <<h_seq>>
    /\ \E p \in DOMAIN blk : blk[p].pc = "store"

(***************************************************************************)
(* C4.  Block-size invariance.  When a forward launch with block size B1   *)
(* has finished, S, V and H equal in every cell what the launch yields     *)
(* with any other autotuned block size B2; likewise dX and dV0 when a      *)
(* backward launch has finished.                                           *)
(***************************************************************************)
C4_BlockSizeInvariance ==
    /\ FwdComplete =>
         \A B2 \in AutotuneConfigs :
            LET r == FwdSequential([kargs EXCEPT !.BLOCK_NCL = B2],
                                   NaturalOrder(cdiv(kargs.NCL, B2)))
            IN s_seq = r.s_seq /\ v_seq = r.v_seq /\ h_seq = r.h_seq
    /\ BwdComplete =>
         \A B2 \in AutotuneConfigs :
            LET r == BwdSequential([kargs EXCEPT !.BLOCK_NCL = B2],
                                   NaturalOrder(cdiv(kargs.NCL, B2)))
            IN grad_x_seq = r.grad_x_seq /\ grad_v_init = r.grad_v_init

\* A finished backward launch of two blocks of size 2 over 3 channels (the
\* last block partial) and 2 steps, with a non-zero gradient stored.
C4_Witness ==
    /\ BwdComplete
    /\ kargs.BLOCK_NCL = 2 /\ kargs.NCL = 3 /\ kargs.T = 2
    /\ \E a \in DOMAIN grad_x_seq : grad_x_seq[a] # 0
    /\ \E a \in DOMAIN s_seq : s_seq[a] = 1

(***************************************************************************)
(* C7.  Order-independence across blocks.  However the loads and stores of *)
(* the concurrently running blocks interleave, a finished forward or       *)
(* backward launch holds the values that running the blocks one after      *)
(* another yields, in every order; no cell is stored twice, and a cell is  *)
(* written only once the block owning its channel has passed its step.     *)
(***************************************************************************)
C7_OrderIndependence ==
    /\ FwdComplete =>
         \A o \in Orders(Cardinality(DOMAIN blk)) :
            LET r == FwdSequential(kargs, o)
            IN s_seq = r.s_seq /\ v_seq = r.v_seq /\ h_seq = r.h_seq
    /\ BwdComplete =>
         \A o \in Orders(Cardinality(DOMAIN blk)) :
            LET r == BwdSequential(kargs, o)
            IN grad_x_seq = r.grad_x_seq /\ grad_v_init = r.grad_v_init
    /\ rewritten = {}
    /\ phase = "fwd_kernel" =>
         \A a \in DOMAIN s_seq :
            LET owner == (a % kargs.NCL) \div kargs.BLOCK_NCL
                written == \/ s_seq[a] # Uninit
                           \/ v_seq[a] # Uninit
                           \/ (h_seq # None /\ h_seq[a] # Uninit)
            IN written => owner \in DOMAIN blk /\ a \div kargs.NCL < blk[owner].t
    /\ phase = "bwd_kernel" =>
         /\ \A a \in DOMAIN grad_x_seq :
              LET owner == (a % kargs.NCL) \div kargs.BLOCK_NCL
              IN grad_x_seq[a] # Uninit =>
                   owner \in DOMAIN blk /\ a \div kargs.NCL > blk[owner].t
         /\ \A n \in DOMAIN grad_v_init :
              LET owner == n \div kargs.BLOCK_NCL
              IN grad_v_init[n] # Uninit =>
                   owner \in DOMAIN blk /\ blk[owner].pc = "exit"

\* Two blocks caught mid-flight at different steps: block 1 has stored step 0
\* and loaded step 1 while block 0 has not yet stored anything.
C7_Witness ==
    /\ phase = "fwd_kernel"
    /\ Cardinality(DOMAIN blk) = 2
    /\ blk[0].pc = "store" /\ blk[0].t = 0
    /\ blk[1].pc = "store" /\ blk[1].t = 1
    /\ s_seq[0] = Uninit /\ s_seq[2] # Uninit

(***************************************************************************)
(* C8.  Boundary masking.  No load or store of either kernel touches a     *)
(* column >= NCL.  The lanes of a partial last block that lie beyond NCL   *)
(* run the recurrence on zeros (forward: from v = 0 with x = 0, spiking    *)
(* when v_threshold <= 0; backward: all gradients 0), and the values       *)
(* stored for the valid channels are those of a launch whose single block  *)
(* has exactly NCL lanes, i.e. no missing lane at all.                     *)
(***************************************************************************)
C8_BoundaryMasking ==
    /\ oob = {}
    /\ phase = "fwd_kernel" =>
         \A p \in DOMAIN blk, l \in Lanes(kargs.BLOCK_NCL) :
            (p * kargs.BLOCK_NCL + l >= kargs.NCL /\ blk[p].pc # "v_init") =>
               LET b == blk[p]
                   done == IF b.pc = "store" THEN b.t + 1 ELSE b.t
                   vprev == PadV(kargs, IF done > 0 THEN done - 1 ELSE 0)
               IN /\ b.v[l] = PadV(kargs, done)
                  /\ done > 0 => /\ b.h[l] = vprev
                                 /\ b.s[l] = (IF vprev >= kargs.v_threshold
                                              THEN 1 ELSE 0)
    /\ phase = "bwd_kernel" =>
         \A p \in DOMAIN blk, l \in Lanes(kargs.BLOCK_NCL) :
            p * kargs.BLOCK_NCL + l >= kargs.NCL =>
               blk[p].grad_v_acc[l] = 0 /\ blk[p].grad_x[l] = 0
    /\ FwdComplete =>
         LET r == FwdSequential([kargs EXCEPT !.BLOCK_NCL = kargs.NCL], <<0>>)
         IN s_seq = r.s_seq /\ v_seq = r.v_seq /\ h_seq = r.h_seq
    /\ BwdComplete =>
         LET r == BwdSequential([kargs EXCEPT !.BLOCK_NCL = kargs.NCL], <<0>>)
         IN grad_x_seq = r.grad_x_seq /\ grad_v_init = r.grad_v_init

\* A partial last block whose missing lane has just spiked on padded zeros
\* (v_threshold <= 0), about to store step 1.
C8_Witness ==
    /\ phase = "fwd_kernel"
    /\ kargs.v_threshold <= 0
    /\ kargs.NCL = 3 /\ kargs.BLOCK_NCL = 2
    /\ 1 \in DOMAIN blk
    /\ blk[1].pc = "store" /\ blk[1].t = 1
    /\ blk[1].s[1] = 1
    /\ blk[1].h[1] = 0
    /\ v_seq[2] # Uninit

(***************************************************************************)
(* C10.  Exact coverage and completion.  With grid = ceil(NCL/BLOCK_NCL)   *)
(* blocks, block p owning channels [p*BLOCK_NCL, (p+1)*BLOCK_NCL), every   *)
(* channel belongs to exactly one block; a launched kernel can always take *)
(* a step until it returns; each block walks t in strict order (forward    *)
(* upwards: exactly the rows below its t are stored; backward downwards:   *)
(* exactly the rows above its t); and when the launch has finished every   *)
(* cell of S and V (H in a training pass; dX and dV0 in a backward pass)   *)
(* has been stored exactly once.                                           *)
(***************************************************************************)
C10_CoverageCompletion ==
    /\ phase \in {"fwd_kernel", "bwd_kernel"} =>
         /\ DOMAIN blk = 0..(Ceil(kargs.NCL, kargs.BLOCK_NCL) - 1)
         /\ \A n \in 0..(kargs.NCL - 1) :
              Cardinality({p \in DOMAIN blk :
                             /\ p * kargs.BLOCK_NCL <= n
                             /\ n < (p + 1) * kargs.BLOCK_NCL}) = 1
         /\ ENABLED Next
    /\ phase = "fwd_kernel" =>
         /\ \A p \in DOMAIN blk : blk[p].t \in 0..kargs.T
         /\ \A p \in DOMAIN blk : blk[p].pc = "exit" => blk[p].t = kargs.T
         /\ \A a \in DOMAIN s_seq :
              LET owner == (a % kargs.NCL) \div kargs.BLOCK_NCL
                  passed == a \div kargs.NCL < blk[owner].t
              IN /\ passed <=> s_seq[a] # Uninit
                 /\ passed <=> v_seq[a] # Uninit
                 /\ kargs.save_intermediates => (passed <=> h_seq[a] # Uninit)
    /\ phase = "bwd_kernel" =>
         /\ \A p \in DOMAIN blk : blk[p].t \in -1..(kargs.T - 1)
         /\ \A p \in DOMAIN blk :
              blk[p].pc \in {"store_v_init", "exit"} => blk[p].t = -1
         /\ \A a \in DOMAIN grad_x_seq :
              LET owner == (a % kargs.NCL) \div kargs.BLOCK_NCL
              IN (a \div kargs.NCL > blk[owner].t) <=> grad_x_seq[a] # Uninit
         /\ \A n \in DOMAIN grad_v_init :
              (blk[n \div kargs.BLOCK_NCL].pc = "exit") <=> grad_v_init[n] # Uninit
    /\ rewritten = {}
    /\ Launched =>
         /\ DOMAIN s_seq = 0..(x_seq.shape[1] * x_seq.shape[2] - 1)
         /\ DOMAIN v_seq = DOMAIN s_seq
         /\ NeedsGrad => DOMAIN h_seq = DOMAIN s_seq
    /\ (FwdComplete \/ phase \in {"fwd_done", "bwd_kernel", "done"}) =>
         /\ \A a \in DOMAIN s_seq : s_seq[a] # Uninit /\ v_seq[a] # Uninit
         /\ NeedsGrad => \A a \in DOMAIN h_seq : h_seq[a] # Uninit
    /\ (BwdComplete \/ phase = "done") =>
         /\ DOMAIN grad_x_seq = DOMAIN s_seq
         /\ DOMAIN grad_v_init = 0..(x_seq.shape[2] - 1)
         /\ \A a \in DOMAIN grad_x_seq : grad_x_seq[a] # Uninit
         /\ \A n \in DOMAIN grad_v_init : grad_v_init[n] # Uninit

\* A finished backward launch of two blocks, the last one partial, after a
\* finished two-step training pass.
C10_Witness ==
    /\ phase = "done"
    /\ x_seq.shape = <<2, 3>>
    /\ \A a \in DOMAIN grad_x_seq : grad_x_seq[a] # Uninit
    /\ \A a \in DOMAIN h_seq : h_seq[a] # Uninit
    /\ \E a \in DOMAIN s_seq : s_seq[a] = 1

(***************************************************************************)
(* C2.  Backward recurrence.  Walking t from T-1 down to 0 with an         *)
(* accumulator that starts at 0, every stored dX[t,n] equals dH computed   *)
(* from combined = dV[t,n] + accumulator (the accumulator being            *)
(* dX[t+1,n], or 0 at t = T-1), sg = sg_fn(H[t,n] - v_threshold) and       *)
(* s = [H[t,n] >= v_threshold] by the four-way split on (soft_reset,       *)
(* detach_reset); and the stored dV0[n] is the last accumulator: dX[0,n]   *)
(* when T >= 1 and 0 when T = 0.                                           *)
(***************************************************************************)
C2_BackwardRecurrence ==
    phase \in {"bwd_kernel", "done"} =>
      LET T == grad_s_seq.shape[1]
          N == grad_s_seq.shape[2]
          soft == v_reset = None
          vr == IF v_reset = None THEN 0 ELSE v_reset[1]
      IN /\ \A t \in 0..(T - 1), n \in 0..(N - 1) :
              LET a == t * N + n
                  acc == IF t = T - 1 THEN 0 ELSE grad_x_seq[a + N]
                  combined == grad_v_seq.data[a] + acc
                  H == h_seq[a]
                  sg == surrogate(sg_fn, H - v_threshold)
                  s == IF H >= v_threshold THEN 1 ELSE 0
                  dS == grad_s_seq.data[a]
                  dH == CASE soft /\ detach_reset ->
                               combined + dS * sg
                          [] soft /\ ~detach_reset ->
                               combined + (dS - v_threshold * combined) * sg
                          [] ~soft /\ detach_reset ->
                               combined * (1 - s) + dS * sg
                          [] ~soft /\ ~detach_reset ->
                               combined * (1 - s) + (dS + combined * (vr - H)) * sg
              IN grad_x_seq[a] # Uninit => acc # Uninit /\ grad_x_seq[a] = dH
         /\ \A n \in 0..(N - 1) :
              grad_v_init[n] # Uninit =>
                 IF T >= 1
                 THEN grad_x_seq[n] # Uninit /\ grad_v_init[n] = grad_x_seq[n]
                 ELSE grad_v_init[n] = 0

\* A finished two-step hard-reset backward pass without detach_reset, with
\* gradients on S and V, over an H that spikes in one cell and not in
\* another; its dV0 is non-zero somewhere.
C2_Witness ==
    /\ phase = "done"
    /\ grad_s_seq.shape[1] = 2
    /\ v_reset # None /\ ~detach_reset
    /\ \E a \in DOMAIN h_seq : h_seq[a] >= v_threshold
    /\ \E a \in DOMAIN h_seq : h_seq[a] < v_threshold
    /\ \E a \in DOMAIN grad_s_seq.data : grad_s_seq.data[a] # 0
    /\ \E n \in DOMAIN grad_v_init : grad_v_init[n] \notin {0, Uninit}

(***************************************************************************)
(* C9.  Accumulator across time.  For T > 1, with dS = 0 everywhere and    *)
(* dV = 0 on every step but the last, a finished backward pass has         *)
(* dV0[n] = dV[T-1,n] times the product over t = 0..T-1 of the per-step    *)
(* factor: 1 for soft+detach, 1 - v_threshold*sg_t for soft+no-detach,     *)
(* 1 - s_t for hard+detach and (1 - s_t) + (v_reset - H[t,n])*sg_t for     *)
(* hard+no-detach, with sg_t = sg_fn(H[t,n] - v_threshold) and             *)
(* s_t = [H[t,n] >= v_threshold].                                          *)
(***************************************************************************)
C9_AccumulatorChainRule ==
    (/\ BwdComplete \/ phase = "done"
     /\ grad_s_seq.shape[1] > 1
     /\ \A a \in DOMAIN grad_s_seq.data : grad_s_seq.data[a] = 0
     /\ \A a \in DOMAIN grad_v_seq.data :
          a \div grad_s_seq.shape[2] < grad_s_seq.shape[1] - 1 =>
             grad_v_seq.data[a] = 0)
    => \A n \in 0..(grad_s_seq.shape[2] - 1) :
          grad_v_init[n] =
             grad_v_seq.data[(grad_s_seq.shape[1] - 1) * grad_s_seq.shape[2] + n]
             * ChainProduct(grad_s_seq.shape[1] - 1, n)

\* A finished two-step hard-reset pass without detach_reset on such
\* gradients whose dV0 is neither 0 nor the injected dV[T-1] in some channel.
C9_Witness ==
    /\ phase = "done"
    /\ grad_s_seq.shape[1] = 2
    /\ v_reset # None /\ ~detach_reset
    /\ \A a \in DOMAIN grad_s_seq.data : grad_s_seq.data[a] = 0
    /\ grad_v_seq.data[0] = 0
    /\ \E n \in DOMAIN grad_v_init :
          /\ grad_v_init[n] # 0
          /\ grad_v_init[n] # grad_v_seq.data[grad_s_seq.shape[2] + n]

(***************************************************************************)
(* C6.  Shape mismatch fails fast: when v_init does not have the NCL       *)
(* channels of x_seq, the call is rejected before any block is launched    *)
(* and no output cell is written.                                          *)
(***************************************************************************)
C6_ShapeMismatchRejected ==
    v_init.shape[1] # x_seq.shape[2] =>
       /\ phase \in {"start", "raised"}
       /\ blk = <<>>
       /\ s_seq = None /\ v_seq = None /\ h_seq = None

====
